---- MODULE Spec2Model ----
(***************************************************************************)
(* eml2txt: a MailParser is built from one .eml file (headers decoded,     *)
(* Date normalised, MIME part tree walked), formatted as a fixed-layout    *)
(* report, and main() dumps a batch of files to text files or to stdout.   *)
(* Two variants are modelled: src/eml2txt.py ("eml2txt", v3.0.0) and       *)
(* src/__main__.py ("main", v1.0.1r).                                      *)
(*                                                                         *)
(* Text (python str) is a sequence of code points, bytes a sequence of     *)
(* integers 0..255.  Python None is the string "None" where the value is a *)
(* string, and the empty sequence where the code only tests truthiness.    *)
(***************************************************************************)
EXTENDS Integers, Sequences, FiniteSets, TLC

\* ---------------------------------------------------------------- bounds
MaxTokens == 2      \* tokens (plain runs / encoded words) in a header value
MaxParts == 4       \* MIME parts in a part tree
MaxArgs == 3        \* command-line arguments after the program name
MaxSubject == 3     \* characters of a subject given to the file-name builder

\* ------------------------------------------------------------- characters
\* ord(): the code point of a character
Ord ==
    "\n" :> 10 @@ " " :> 32 @@ "!" :> 33 @@ "\"" :> 34 @@ "#" :> 35 @@
    "$" :> 36 @@ "%" :> 37 @@ "&" :> 38 @@ "'" :> 39 @@ "(" :> 40 @@
    ")" :> 41 @@ "*" :> 42 @@ "+" :> 43 @@ "," :> 44 @@ "-" :> 45 @@
    "." :> 46 @@ "/" :> 47 @@ "0" :> 48 @@ "1" :> 49 @@ "2" :> 50 @@
    "3" :> 51 @@ "4" :> 52 @@ "5" :> 53 @@ "6" :> 54 @@ "7" :> 55 @@
    "8" :> 56 @@ "9" :> 57 @@ ":" :> 58 @@ ";" :> 59 @@ "<" :> 60 @@
    "=" :> 61 @@ ">" :> 62 @@ "?" :> 63 @@ "@" :> 64 @@ "A" :> 65 @@
    "B" :> 66 @@ "C" :> 67 @@ "D" :> 68 @@ "E" :> 69 @@ "F" :> 70 @@
    "G" :> 71 @@ "H" :> 72 @@ "I" :> 73 @@ "J" :> 74 @@ "K" :> 75 @@
    "L" :> 76 @@ "M" :> 77 @@ "N" :> 78 @@ "O" :> 79 @@ "P" :> 80 @@
    "Q" :> 81 @@ "R" :> 82 @@ "S" :> 83 @@ "T" :> 84 @@ "U" :> 85 @@
    "V" :> 86 @@ "W" :> 87 @@ "X" :> 88 @@ "Y" :> 89 @@ "Z" :> 90 @@
    "[" :> 91 @@ "\\" :> 92 @@ "]" :> 93 @@ "^" :> 94 @@ "_" :> 95 @@
    "a" :> 97 @@ "b" :> 98 @@ "c" :> 99 @@ "d" :> 100 @@ "e" :> 101 @@
    "f" :> 102 @@ "g" :> 103 @@ "h" :> 104 @@ "i" :> 105 @@ "j" :> 106 @@
    "k" :> 107 @@ "l" :> 108 @@ "m" :> 109 @@ "n" :> 110 @@ "o" :> 111 @@
    "p" :> 112 @@ "q" :> 113 @@ "r" :> 114 @@ "s" :> 115 @@ "t" :> 116 @@
    "u" :> 117 @@ "v" :> 118 @@ "w" :> 119 @@ "x" :> 120 @@ "y" :> 121 @@
    "z" :> 122 @@ "{" :> 123 @@ "|" :> 124 @@ "}" :> 125 @@ "~" :> 126
Str(s) == [i \in 1..Len(s) |-> Ord[s[i]]]

RECURSIVE Flatten(_)
Flatten(ss) == IF ss = <<>> THEN <<>> ELSE Head(ss) \o Flatten(Tail(ss))

SeqsUpTo(S, n) == UNION {[1..k -> S] : k \in 0..n}

\* ----------------------------------------------------------------- codecs
\* U+FFFD, what errors='replace' puts for undecodable input.
REPL == 65533

\* The codec registry's lookup of a charset label.
CodecLookup(label) ==
    CASE label \in {"utf-8", "UTF-8"} -> "utf-8"
      [] label \in {"iso-8859-1", "latin-1"} -> "latin-1"
      [] OTHER -> "unknown"

\* bytes.decode('utf-8', errors='replace') for one- and two-byte sequences
\* (the model's bytes stay below 0xE0).
RECURSIVE Utf8Decode(_)
Utf8Decode(b) ==
    IF b = <<>> THEN <<>>
    ELSE IF b[1] < 128 THEN <<b[1]>> \o Utf8Decode(Tail(b))
    ELSE IF b[1] \in 194..223 /\ Len(b) >= 2 /\ b[2] \in 128..191
         THEN <<(b[1] - 192) * 64 + (b[2] - 128)>>
                  \o Utf8Decode(SubSeq(b, 3, Len(b)))
    ELSE <<REPL>> \o Utf8Decode(Tail(b))

\* bytes.decode('latin-1'): every byte is the code point of the same number.
Latin1Decode(b) == [i \in 1..Len(b) |-> b[i]]

\* bytes.decode(label, errors='replace'): LookupError for an unknown label,
\* whatever the error policy.
BytesDecode(b, label) ==
    CASE CodecLookup(label) = "utf-8" -> [exc |-> "None", text |-> Utf8Decode(b)]
      [] CodecLookup(label) = "latin-1" -> [exc |-> "None", text |-> Latin1Decode(b)]
      [] OTHER -> [exc |-> "LookupError", text |-> <<>>]

\* ------------------------------------------------- email.header.decode_header
\* A header value after the encoded-word regex split: a sequence of tokens,
\* plain runs [kind |-> "plain", charset |-> "None", data |-> text] and
\* encoded words [kind |-> "ew", charset |-> label (lower-cased), data |->
\* transfer-decoded bytes].
IsSpace(t) == t # <<>> /\ \A i \in 1..Len(t) : t[i] \in {32, 9}

RECURSIVE LStrip(_)
LStrip(t) == IF t # <<>> /\ t[1] \in {32, 9} THEN LStrip(Tail(t)) ELSE t

HasEncodedWord(toks) == \E i \in 1..Len(toks) : toks[i].kind = "ew"

\* words: the first unencoded run is left-stripped, empty runs are skipped
Words(toks) ==
    LET first(i) == [toks[i] EXCEPT !.data = IF i = 1 /\ toks[i].kind = "plain"
                                             THEN LStrip(@) ELSE @]
        ws == [i \in 1..Len(toks) |-> first(i)]
    IN SelectSeq(ws, LAMBDA w : w.kind = "ew" \/ w.data # <<>>)

\* whitespace between two encoded words is dropped
DropSpace(ws) ==
    LET keep(n) == ~(n > 1 /\ n < Len(ws) /\ ws[n].kind = "plain"
                     /\ IsSpace(ws[n].data)
                     /\ ws[n-1].kind = "ew" /\ ws[n+1].kind = "ew")
        idx == SelectSeq([n \in 1..Len(ws) |-> n], keep)
    IN [k \in 1..Len(idx) |-> ws[idx[k]]]

\* adjacent words of the same charset are collapsed into one byte fragment
RECURSIVE Collapse(_, _, _)
Collapse(ws, last_word, last_charset) ==
    IF ws = <<>>
    THEN <<[isbytes |-> TRUE, data |-> last_word, charset |-> last_charset]>>
    ELSE LET w == Head(ws) IN
         IF w.charset # last_charset
         THEN <<[isbytes |-> TRUE, data |-> last_word, charset |-> last_charset]>>
                  \o Collapse(Tail(ws), w.data, w.charset)
         ELSE IF last_charset = "None"
         THEN Collapse(Tail(ws), last_word \o <<32>> \o w.data, last_charset)
         ELSE Collapse(Tail(ws), last_word \o w.data, last_charset)

\* decode_header(raw_obj): a value without encoded words comes back as one
\* str fragment; otherwise every fragment is bytes with its charset label.
decode_header(toks) ==
    IF ~HasEncodedWord(toks)
    THEN <<[isbytes |-> FALSE, data |-> Flatten([i \in 1..Len(toks) |-> toks[i].data]),
            charset |-> "None"]>>
    ELSE LET ws == DropSpace(Words(toks))
         IN Collapse(Tail(ws), Head(ws).data, Head(ws).charset)

\* ------------------------------------------- MailParser._get_decoded_header
\* faulty variant of FragmentCodec: the default codec is Latin-1
FragmentCodecLatin1(encoding) ==
    IF encoding \in {"None", ""} THEN "latin-1" ELSE encoding

\* `encoding if encoding else 'UTF-8'`
FragmentCodec(encoding) == IF encoding \in {"None", ""} THEN "UTF-8" ELSE encoding

\* one pass of the loop body: ret with the fragment appended, or the exception
DecodeFragment(ret, frag) ==
    IF ~frag.isbytes THEN [exc |-> "None", ret |-> ret \o frag.data]
    ELSE LET d == BytesDecode(frag.data, FragmentCodec(frag.charset))
         IN [exc |-> d.exc, ret |-> IF d.exc = "None" THEN ret \o d.text ELSE ret]

RECURSIVE DecodeFragments(_, _)
DecodeFragments(ret, frags) ==
    IF frags = <<>> THEN [exc |-> "None", ret |-> ret]
    ELSE CHOOSE v \in {IF r.exc # "None" THEN r
                       ELSE DecodeFragments(r.ret, Tail(frags)) :
                         r \in {DecodeFragment(ret, Head(frags))}} : TRUE

\* a header of a message: [present |-> BOOLEAN, toks |-> tokens]
_get_decoded_header(msg, key_name) ==
    LET raw_obj == msg.headers[key_name]
    IN IF ~raw_obj.present THEN [exc |-> "None", ret |-> <<>>]
       ELSE DecodeFragments(<<>>, decode_header(raw_obj.toks))

\* ------------------------------------------------- dateutil.parser.parse
\* The timestamp grammar is cut down to four word shapes separated by
\* blanks: yyyy-mm-dd, dd-mm-yyyy (or mm-dd-yyyy), hh:mm:ss and +hhmm.
IsDigit(c) == c \in 48..57

\* str.split(" ") without the empty words
RECURSIVE Split(_, _)
Split(t, cur) ==
    IF t = <<>> THEN (IF cur = <<>> THEN <<>> ELSE <<cur>>)
    ELSE IF Head(t) = 32
         THEN (IF cur = <<>> THEN <<>> ELSE <<cur>>) \o Split(Tail(t), <<>>)
         ELSE Split(Tail(t), Append(cur, Head(t)))

\* a word with every digit replaced by "d"
Shape(w) == [i \in 1..Len(w) |-> IF IsDigit(w[i]) THEN Ord["d"] ELSE w[i]]

WordKind(w) ==
    CASE Shape(w) = Str(<<"d","d","d","d","-","d","d","-","d","d">>) -> "ymd"
      [] Shape(w) = Str(<<"d","d","-","d","d","-","d","d","d","d">>) -> "dmy"
      [] Shape(w) = Str(<<"d","d",":","d","d",":","d","d">>) -> "time"
      [] Shape(w) = Str(<<"+","d","d","d","d">>) -> "tz"
      [] OTHER -> "unknown"

\* the date the parser fills in when the text holds a time only
Today == Str(<<"2","0","2","6","-","1","1","-","0","6">>)

\* parse(text, dayfirst=.., fuzzy=..).isoformat(): ParserError when the text
\* holds no timestamp, or a word the parser cannot place and fuzzy is off.
DateutilParse(text, dayfirst, fuzzy) ==
    LET ws == Split(text, <<>>)
        of(k) == SelectSeq(ws, LAMBDA w : WordKind(w) = k)
        dash == Str(<<"-">>)
        ymd == IF of("ymd") # <<>> THEN of("ymd")[1]
               ELSE IF of("dmy") # <<>>
               THEN LET w == of("dmy")[1]
                        a == SubSeq(w, 1, 2)
                        b == SubSeq(w, 4, 5)
                    IN SubSeq(w, 7, 10) \o dash
                         \o (IF dayfirst THEN b ELSE a) \o dash
                         \o (IF dayfirst THEN a ELSE b)
               ELSE Today
        hms == IF of("time") # <<>> THEN of("time")[1]
               ELSE Str(<<"0","0",":","0","0",":","0","0">>)
        tz == IF of("tz") # <<>>
              THEN LET w == of("tz")[1]
                   IN SubSeq(w, 1, 3) \o Str(<<":">>) \o SubSeq(w, 4, 5)
              ELSE <<>>
    IN IF of("unknown") # <<>> /\ ~fuzzy
       THEN [exc |-> "ParserError", iso |-> <<>>]
       ELSE IF of("ymd") = <<>> /\ of("dmy") = <<>> /\ of("time") = <<>>
       THEN [exc |-> "ParserError", iso |-> <<>>]
       ELSE [exc |-> "None", iso |-> ymd \o Str(<<"T">>) \o hms \o tz]

\* the keyword arguments the two variants pass to parse()
DateArgs(variant) ==
    IF variant = "eml2txt" THEN [dayfirst |-> TRUE, fuzzy |-> TRUE]
    ELSE [dayfirst |-> FALSE, fuzzy |-> FALSE]

\* self.date = parse(self._get_decoded_header("Date"), ...).isoformat()
ParseDateHeader(variant, msg) ==
    LET h == _get_decoded_header(msg, "Date")
    IN IF h.exc # "None" THEN [exc |-> h.exc, iso |-> <<>>]
       ELSE DateutilParse(h.ret, DateArgs(variant).dayfirst, DateArgs(variant).fuzzy)

\* ------------------------------------------------------------ MIME parts
\* A part: maintype (get_content_maintype), filename (get_filename; <<>> when
\* there is none), charset (get_content_charset; "None" when there is none),
\* payload (the bytes with the content-transfer encoding undone),
\* is_multipart (the payload is a list of parts) and children (that list).

\* part.get_payload(decode=True): None for a part whose payload is a list
get_payload(part) ==
    IF part.is_multipart THEN [isNone |-> TRUE, bytes |-> <<>>]
    ELSE [isNone |-> FALSE, bytes |-> part.payload]

\* Message.walk(): the part, then the walk of each subpart in list order.
\* Every entry carries the part's position in the tree (child indexes from
\* the root).
RECURSIVE walk(_, _)

\* faulty variant of walk: the subparts are taken last to first
walk_reversed(part, path) ==
    <<[part |-> part, path |-> path]>>
      \o (IF part.is_multipart
          THEN Flatten([i \in 1..Len(part.children) |->
                          walk(part.children[Len(part.children) + 1 - i],
                               Append(path, Len(part.children) + 1 - i))])
          ELSE <<>>)

walk(part, path) ==
    <<[part |-> part, path |-> path]>>
      \o (IF part.is_multipart
          THEN Flatten([i \in 1..Len(part.children) |->
                          walk(part.children[i], Append(path, i))])
          ELSE <<>>)

\* one pass of the loop body of _parse over `part`
ParsePart(body, attach_file_list, part) ==
    LET same == [exc |-> "None", body |-> body, attach_file_list |-> attach_file_list]
    IN IF part.maintype = "multipart" THEN same
       ELSE IF part.filename = <<>>
       THEN IF part.charset \in {"None", ""} THEN same
            ELSE IF get_payload(part).isNone
            THEN [same EXCEPT !.exc = "AttributeError"]
            ELSE LET d == BytesDecode(get_payload(part).bytes, part.charset)
                 IN IF d.exc # "None" THEN [same EXCEPT !.exc = d.exc]
                    ELSE [same EXCEPT !.body = body \o d.text]
       ELSE [same EXCEPT !.attach_file_list =
                Append(attach_file_list,
                       [name |-> part.filename, data |-> get_payload(part)])]

RECURSIVE ParseParts(_, _, _)
ParseParts(body, attach_file_list, entries) ==
    IF entries = <<>>
    THEN [exc |-> "None", body |-> body, attach_file_list |-> attach_file_list]
    ELSE CHOOSE v \in {IF r.exc # "None" THEN r
                       ELSE ParseParts(r.body, r.attach_file_list, Tail(entries)) :
                         r \in {ParsePart(body, attach_file_list, Head(entries).part)}} :
                  TRUE

\* ------------------------------------------------------ MailParser.__init__
\* the object before __init__ has bound anything
NoParser ==
    [bound |-> FALSE, mail_file_path |-> <<>>, subject |-> <<>>,
     to_address |-> <<>>, cc_address |-> <<>>, from_address |-> <<>>,
     date |-> <<>>, body |-> <<>>, attach_file_list |-> <<>>]

FirstExc(es) ==
    LET bad == SelectSeq(es, LAMBDA e : e # "None")
    IN IF bad = <<>> THEN "None" ELSE bad[1]

\* _parse(): the five headers in source order, then the walk
_parse(variant, path, msg) ==
    LET s == _get_decoded_header(msg, "Subject")
        t == _get_decoded_header(msg, "To")
        c == _get_decoded_header(msg, "Cc")
        f == _get_decoded_header(msg, "From")
        d == ParseDateHeader(variant, msg)
        hexc == FirstExc(<<s.exc, t.exc, c.exc, f.exc, d.exc>>)
        w == ParseParts(<<>>, <<>>, walk(msg.root, <<>>))
    IN IF hexc # "None" THEN [exc |-> hexc, parser |-> NoParser]
       ELSE IF w.exc # "None" THEN [exc |-> w.exc, parser |-> NoParser]
       ELSE [exc |-> "None",
             parser |-> [bound |-> TRUE, mail_file_path |-> path,
                         subject |-> s.ret, to_address |-> t.ret,
                         cc_address |-> c.ret, from_address |-> f.ret,
                         date |-> d.iso, body |-> w.body,
                         attach_file_list |-> w.attach_file_list]]

\* cls(mail_file_path) against a file system fs: path -> [exists, msg]
MailParserNew(variant, fs, path) ==
    IF path \notin DOMAIN fs \/ ~fs[path].exists
    THEN [exc |-> "FileNotFoundError", parser |-> NoParser]
    ELSE _parse(variant, path, fs[path].msg)

\* ------------------------------------------------------------ formatting
RECURSIVE Join(_, _)
Join(sep, ss) ==
    IF ss = <<>> THEN <<>>
    ELSE IF Len(ss) = 1 THEN ss[1]
    ELSE ss[1] \o sep \o Join(sep, Tail(ss))

Rule == [i \in 1..23 |-> Ord["-"]]

get_attr_data(p) ==
    Str(<<"D","A","T","E",":"," ">>) \o p.date \o Str(<<"\n">>)
      \o Str(<<"F","R","O","M",":"," ">>) \o p.from_address \o Str(<<"\n">>)
      \o Str(<<"T","O",":"," ">>) \o p.to_address \o Str(<<"\n">>)
      \o Str(<<"C","C",":"," ">>) \o p.cc_address \o Str(<<"\n">>)
      \o Rule \o Str(<<"\n">>)
      \o Str(<<"S","U","B","J","E","C","T",":"," ">>) \o p.subject \o Str(<<"\n">>)
      \o Str(<<"B","O","D","Y",":","\n">>) \o p.body \o Str(<<"\n">>)
      \o Rule \o Str(<<"\n">>)
      \o Str(<<"A","T","T","A","C","H","_","F","I","L","E","_","N","A","M","E",":","\n">>)
      \o Join(Str(<<",">>),
              [i \in 1..Len(p.attach_file_list) |-> p.attach_file_list[i].name])
      \o Str(<<"\n">>)

\* ------------------------------------------------------- output file name
\* faulty variant of invalid_str: the double quote is left out of the class
invalid_str_no_quote == {Ord[c] : c \in {"\\", "/", ":", "*", "?", "<", ">", "|"}}

\* invalid_str = r"[\\/:*?\"<>|]"
invalid_str == {Ord[c] : c \in {"\\", "/", ":", "*", "?", "\"", "<", ">", "|"}}

\* re.sub(invalid_str, "", text)
RECURSIVE re_sub(_)
re_sub(text) ==
    IF text = <<>> THEN <<>>
    ELSE IF Head(text) \in invalid_str THEN re_sub(Tail(text))
    ELSE <<Head(text)>> \o re_sub(Tail(text))

\* text.replace("-", "")
RECURSIVE RemoveDash(_)
RemoveDash(text) ==
    IF text = <<>> THEN <<>>
    ELSE IF Head(text) = Ord["-"] THEN RemoveDash(Tail(text))
    ELSE <<Head(text)>> \o RemoveDash(Tail(text))

\* parser.date[:-len("+09:00")].replace("-", "")
title_date(date) ==
    RemoveDash(IF Len(date) > 6 THEN SubSeq(date, 1, Len(date) - 6) ELSE <<>>)

\* the name dump2txt opens for writing
OutName(variant, subject, date) ==
    IF variant = "eml2txt"
    THEN re_sub(title_date(date)) \o Str(<<"_">>) \o re_sub(subject)
           \o Str(<<".","t","x","t">>)
    ELSE re_sub(subject) \o Str(<<".","t","x","t">>)

\* faulty variant of OpenMode: every variant appends
OpenModeAppend(variant) == "a"

\* the mode dump2txt opens the output file with
OpenMode(variant) == IF variant = "eml2txt" THEN "w" ELSE "a"

\* ------------------------------------------------------------------ state
VARIABLES
    variant,    \* "eml2txt" (src/eml2txt.py) or "main" (src/__main__.py)
    \* -- one MailParser under construction
    msg,        \* self.email_message
    cpc,        \* where __init__/_parse stands: a header key while that header
                \* is decoded, "parse_date", "walk", "done" or "raised"
    self,       \* the fields assigned so far
    fi,         \* next fragment of the header being decoded
    ret,        \* ret of the running _get_decoded_header
    wi,         \* next entry of the walk
    visited,    \* tree positions of the parts the loop body has run on
    raised,     \* the exception that left __init__, or "None"
    \* -- the file-name builder on its own
    outname,    \* the name built from self.subject and self.date
    \* -- the process
    argv,       \* sys.argv
    pc,         \* "main", "dump2txt", "handler", "dump2stdout" or "exit"
    mode,       \* the branch main() took: "none" before it, then "usage",
                \* "version", "help", "stream" or "files"
    idx,        \* position of the for loop in argv[1:]
    filename,   \* the loop variable (<<>> while unbound)
    parser,     \* the local `parser` of dump2txt (bound |-> FALSE while unbound)
    exc,        \* the exception in flight or that ended the process
    files,      \* files created in the working directory: name -> text
    stdout,     \* the reports printed, one entry per print()
    exitcode,   \* -1 while running, then the exit status
    opened,     \* every path handed to open(.., 'rb'), in order
    written,    \* every completed write of a report: [name, src, text]
    failures    \* the input files whose processing raised

ctorVars == <<msg, cpc, self, fi, ret, wi, visited, raised>>
procVars == <<argv, pc, mode, idx, filename, parser, exc, files, stdout, exitcode,
              opened, written, failures>>
vars == <<variant, ctorVars, outname, procVars>>

Variants == {"eml2txt", "main"}

\* sys.argv[0]
Prog == Str(<<"p","r","o","g">>)
MPath == Str(<<"m",".","e","m","l">>)

\* -------------------------------------------------------- input universes
Plain(t) == [kind |-> "plain", charset |-> "None", data |-> t]
EW(label, b) == [kind |-> "ew", charset |-> label, data |-> b]
Present(toks) == [present |-> TRUE, toks |-> toks]
Absent == [present |-> FALSE, toks |-> <<>>]

PlainRuns == {Str(<<"a">>), Str(<<" ">>), Str(<<" ","b">>)}
EncodedWords ==
    {EW("utf-8", <<65>>), EW("utf-8", <<195, 169>>), EW("utf-8", <<233>>),
     EW("iso-8859-1", <<233>>), EW("", <<195, 169>>), EW("", <<233>>),
     EW("x-unknown", <<65>>)}
Tokens == {Plain(t) : t \in PlainRuns} \cup EncodedWords

\* the regex split never yields two unencoded runs in a row
HeaderValues ==
    {Absent} \cup
    {Present(s) : s \in {s \in SeqsUpTo(Tokens, MaxTokens) :
        \A i \in 1..(Len(s) - 1) : ~(s[i].kind = "plain" /\ s[i+1].kind = "plain")}}

DateStamp == Str(<<"2","0","2","4","-","0","1","-","0","2"," ","0","3",":","0","4",":","0","5">>)
DateZone == Str(<<" ","+","0","9","0","0">>)
DateTexts ==
    {DateStamp \o DateZone, DateStamp,
     Str(<<"o","n"," ">>) \o DateStamp \o DateZone,
     Str(<<"0","1","-","0","2","-","2","0","2","4">>),
     Str(<<"0","3",":","0","4",":","0","5">>),
     Str(<<"x">>), <<>>}
DateValues == {Absent} \cup {Present(<<Plain(t)>>) : t \in DateTexts}

Leaf(fname, charset, payload) ==
    [maintype |-> "text", filename |-> fname, charset |-> charset,
     payload |-> payload, is_multipart |-> FALSE, children |-> <<>>]
Multipart(children) ==
    [maintype |-> "multipart", filename |-> <<>>, charset |-> "None",
     payload |-> <<>>, is_multipart |-> TRUE, children |-> children]
\* message/rfc822: the payload is a list holding the enclosed message
Rfc822(fname, charset, child) ==
    [maintype |-> "message", filename |-> fname, charset |-> charset,
     payload |-> <<>>, is_multipart |-> TRUE, children |-> <<child>>]
LeafParts ==
    {Leaf(<<>>, "utf-8", <<72, 105>>), Leaf(<<>>, "utf-8", <<233>>),
     Leaf(Str(<<"f">>), "None", <<1>>), Leaf(Str(<<"f">>), "utf-8", <<233>>),
     Leaf(<<>>, "None", <<72>>), Leaf(<<>>, "x-unknown", <<72>>)}
\* (filename, charset) of the message/rfc822 parts
Rfc822Heads == {<<(<<>>), "None">>, <<Str(<<"m">>), "None">>}

RECURSIVE TreesOfSize(_), ForestsOfSize(_)
TreesOfSize(n) ==
    IF n = 1 THEN LeafParts
    ELSE {Multipart(f) : f \in ForestsOfSize(n - 1)}
           \cup {Rfc822(h[1], h[2], t) : h \in Rfc822Heads, t \in TreesOfSize(n - 1)}
ForestsOfSize(k) ==
    IF k = 0 THEN {<<>>}
    ELSE UNION {{<<t>> \o f : t \in TreesOfSize(j), f \in ForestsOfSize(k - j)} :
                  j \in 1..k}
Trees == UNION {TreesOfSize(n) : n \in 1..MaxParts}

Message(subject, date, root) ==
    [headers |-> [Subject |-> subject,
                  To |-> Present(<<Plain(Str(<<"t","@","x">>))>>),
                  Cc |-> Absent,
                  From |-> Present(<<EW("iso-8859-1", <<233>>)>>),
                  Date |-> date],
     root |-> root]

PlainSubject == Present(<<Plain(Str(<<"s">>))>>)
GoodDate == Present(<<Plain(DateStamp \o DateZone)>>)
TextRoot == Leaf(<<>>, "utf-8", <<72, 105>>)

\* the messages a MailParser is built from: each varies one of the subject,
\* the date and the part tree
Messages ==
    {Message(s, GoodDate, TextRoot) : s \in HeaderValues}
      \cup {Message(PlainSubject, d, TextRoot) : d \in DateValues}
      \cup {Message(PlainSubject, GoodDate, t) : t \in Trees}

\* ------------------------------------------------ MailParser.__init__, stepwise
HeaderKeys == <<"Subject", "To", "Cc", "From", "Date">>
KeyField == [Subject |-> "subject", To |-> "to_address", Cc |-> "cc_address",
             From |-> "from_address", Date |-> "date"]
NextPc(key) ==
    CASE key = "Subject" -> "To" [] key = "To" -> "Cc" [] key = "Cc" -> "From"
      [] key = "From" -> "Date" [] key = "Date" -> "parse_date"
InHeader == cpc \in {"Subject", "To", "Cc", "From", "Date"}

Fragments == decode_header(msg.headers[cpc].toks)
Entries == walk(msg.root, <<>>)

\* the value _get_decoded_header returns is assigned (for Date it is handed
\* to parse() first)
Assign(value) ==
    /\ self' = IF cpc = "Date" THEN self
               ELSE [self EXCEPT ![KeyField[cpc]] = value]
    /\ ret' = IF cpc = "Date" THEN value ELSE <<>>
    /\ cpc' = NextPc(cpc)
    /\ fi' = 1

\* raw_obj is None: return ""
HeaderAbsent ==
    /\ InHeader /\ ~msg.headers[cpc].present
    /\ Assign(<<>>)
    /\ UNCHANGED <<variant, msg, wi, visited, raised, outname, procVars>>

\* one fragment of the for loop of _get_decoded_header
HeaderFragment ==
    /\ InHeader /\ msg.headers[cpc].present /\ fi <= Len(Fragments)
    /\ LET r == DecodeFragment(ret, Fragments[fi])
       IN IF r.exc # "None"
          THEN /\ raised' = r.exc
               /\ cpc' = "raised"
               /\ UNCHANGED <<ret, fi>>
          ELSE /\ ret' = r.ret
               /\ fi' = fi + 1
               /\ UNCHANGED <<raised, cpc>>
    /\ UNCHANGED <<variant, msg, self, wi, visited, outname, procVars>>

\* return ret
HeaderReturn ==
    /\ InHeader /\ msg.headers[cpc].present /\ fi > Len(Fragments)
    /\ Assign(ret)
    /\ UNCHANGED <<variant, msg, wi, visited, raised, outname, procVars>>

\* self.date = parse(...).isoformat()
ParseDate ==
    /\ cpc = "parse_date"
    /\ LET d == DateutilParse(ret, DateArgs(variant).dayfirst, DateArgs(variant).fuzzy)
       IN IF d.exc # "None"
          THEN /\ raised' = d.exc
               /\ cpc' = "raised"
               /\ UNCHANGED self
          ELSE /\ self' = [self EXCEPT !.date = d.iso]
               /\ cpc' = "walk"
               /\ UNCHANGED raised
    /\ ret' = <<>>
    /\ UNCHANGED <<variant, msg, fi, wi, visited, outname, procVars>>

\* one part of `for part in self.email_message.walk()`
WalkPart ==
    /\ cpc = "walk" /\ wi <= Len(Entries)
    /\ LET r == ParsePart(self.body, self.attach_file_list, Entries[wi].part)
       IN IF r.exc # "None"
          THEN /\ raised' = r.exc
               /\ cpc' = "raised"
               /\ UNCHANGED self
          ELSE /\ self' = [self EXCEPT !.body = r.body,
                                       !.attach_file_list = r.attach_file_list]
               /\ UNCHANGED <<raised, cpc>>
    /\ visited' = Append(visited, Entries[wi].path)
    /\ wi' = wi + 1
    /\ UNCHANGED <<variant, msg, fi, ret, outname, procVars>>

\* the walk is exhausted: __init__ returns
WalkEnd ==
    /\ cpc = "walk" /\ wi > Len(Entries)
    /\ cpc' = "done"
    /\ self' = [self EXCEPT !.bound = TRUE]
    /\ UNCHANGED <<variant, msg, fi, ret, wi, visited, raised, outname, procVars>>

IdleProc ==
    /\ argv = <<Prog>> /\ pc = "idle" /\ mode = "none" /\ idx = 0 /\ filename = <<>>
    /\ parser = NoParser /\ exc = "None" /\ files = <<>> /\ stdout = <<>>
    /\ exitcode = -1 /\ opened = <<>> /\ written = <<>> /\ failures = {}

IdleCtor ==
    /\ msg = Message(Absent, Absent, TextRoot) /\ cpc = "idle" /\ self = NoParser
    /\ fi = 1 /\ ret = <<>> /\ wi = 1 /\ visited = <<>> /\ raised = "None"

InitParse ==
    /\ variant \in Variants
    /\ msg \in Messages
    /\ cpc = "Subject"
    /\ self = [NoParser EXCEPT !.mail_file_path = MPath]
    /\ fi = 1 /\ ret = <<>> /\ wi = 1 /\ visited = <<>> /\ raised = "None"
    /\ outname = <<>>
    /\ IdleProc

NextParse ==
    \/ HeaderAbsent
    \/ HeaderFragment
    \/ HeaderReturn
    \/ ParseDate
    \/ WalkPart
    \/ WalkEnd

SpecParse == InitParse /\ [][NextParse]_vars

\* the stepwise constructor and the constructor as one function agree
StepwiseAgrees ==
    LET whole == _parse(variant, MPath, msg)
    IN /\ cpc = "done" => whole.exc = "None" /\ whole.parser = self
       /\ cpc = "raised" => whole.exc = raised

\* ------------------------------------------------------- file-name builder
IsoDates ==
    {r.iso : r \in {d \in {DateutilParse(t, a.dayfirst, a.fuzzy) :
                             t \in DateTexts, a \in {DateArgs(v) : v \in Variants}} :
                      d.exc = "None"}}
SubjectChars ==
    {Ord[c] : c \in {"\\", "/", ":", "*", "?", "\"", "<", ">", "|", "a", "-"}}
ReportSubject == Str(<<"M","y","/","R","e","p","o","r","t",":","2","0","2","4">>)

InitName ==
    /\ variant \in Variants
    /\ msg = Message(Absent, Absent, TextRoot)
    /\ cpc = "done"
    /\ \E s \in SeqsUpTo(SubjectChars, MaxSubject) \cup {ReportSubject}, d \in IsoDates :
         self = [NoParser EXCEPT !.bound = TRUE, !.mail_file_path = MPath,
                                 !.subject = s, !.date = d]
    /\ fi = 1 /\ ret = <<>> /\ wi = 1 /\ visited = <<>> /\ raised = "None"
    /\ outname = <<>>
    /\ IdleProc

\* lines 146-155 of dump2txt (141-146 of __main__): the name to open
BuildName ==
    /\ cpc = "done"
    /\ outname' = OutName(variant, self.subject, self.date)
    /\ cpc' = "named"
    /\ UNCHANGED <<variant, msg, self, fi, ret, wi, visited, raised, procVars>>

NextName == BuildName

SpecName == InitName /\ [][NextName]_vars

\* ------------------------------------------------------------ the process
Dash == Str(<<"-">>)
OptV == {Str(<<"-","v">>), Str(<<"-","-","v","e","r","s","i","o","n">>)}
OptH == {Str(<<"-","h">>), Str(<<"-","-","h","e","l","p">>)}

VERSION(v) ==
    IF v = "eml2txt"
    THEN Str(<<"e","m","l","2","e","x","t"," ","v","3",".","0",".","0">>)
    ELSE Str(<<"e","m","l","2","e","x","t"," ","v","1",".","0",".","1","r">>)
\* print(__doc__), cut to its first word
Doc == Str(<<"U","s","a","g","e",":">>)

AEml == Str(<<"a",".","e","m","l">>)
BEml == Str(<<"b",".","e","m","l">>)
CEml == Str(<<"c",".","e","m","l">>)
NoDateEml == Str(<<"n","o","d","a","t","e",".","e","m","l">>)
MissingEml == Str(<<"m","i","s","s","i","n","g",".","e","m","l">>)

\* the working directory before the run: a.eml and b.eml carry the same
\* subject and date and different bodies, c.eml another subject and date,
\* nodate.eml no Date header; missing.eml and "-" do not exist
FS ==
    (AEml :> [exists |-> TRUE,
              msg |-> Message(Present(<<Plain(Str(<<"A","/","b">>))>>), GoodDate,
                              Multipart(<<Leaf(<<>>, "utf-8", <<72, 105>>),
                                          Leaf(Str(<<"f">>), "None", <<1>>)>>))])
    @@ (BEml :> [exists |-> TRUE,
                 msg |-> Message(Present(<<Plain(Str(<<"A","/","b">>))>>), GoodDate,
                                 Leaf(<<>>, "utf-8", <<79>>))])
    @@ (CEml :> [exists |-> TRUE,
                 msg |-> Message(Present(<<Plain(Str(<<"c">>))>>),
                                 Present(<<Plain(DateStamp)>>), TextRoot)])
    @@ (NoDateEml :> [exists |-> TRUE,
                      msg |-> Message(PlainSubject, Absent, TextRoot)])

ArgWords == {AEml, BEml, CEml, NoDateEml, MissingEml, Dash} \cup OptV \cup OptH

ErrorLog == Str(<<"e","m","l","2","e","x","t","_","e","r","r","o","r",".","t","x","t">>)

\* str(e)
ExcText(e) ==
    CASE e = "FileNotFoundError" -> Str(<<"N","o"," ","s","u","c","h"," ","f","i","l","e">>)
      [] e = "ParserError" -> Str(<<"N","o"," ","d","a","t","e">>)
      [] e = "LookupError" -> Str(<<"u","n","k","n","o","w","n"," ","e","n","c","o","d","i","n","g">>)
      [] e = "OSError" -> Str(<<"c","a","n","n","o","t"," ","w","r","i","t","e">>)
      [] OTHER -> Str(<<"e","r","r","o","r">>)

\* open(name, how) ... _f.write(text): 'w' truncates, 'a' appends
WriteFile(fs, name, how, text) ==
    [n \in DOMAIN fs \cup {name} |->
       IF n # name THEN fs[n]
       ELSE IF how = "a" /\ name \in DOMAIN fs THEN fs[name] \o text
       ELSE text]

\* list.remove(x): the first occurrence only
ListRemove(l, x) ==
    LET k == CHOOSE k \in 1..Len(l) : l[k] = x /\ \A j \in 1..(k - 1) : l[j] # x
    IN SubSeq(l, 1, k - 1) \o SubSeq(l, k + 1, Len(l))

InArgv(x) == \E k \in 1..Len(argv) : argv[k] = x

Exit(code, e) ==
    /\ pc' = "exit"
    /\ exitcode' = code
    /\ exc' = e

Init ==
    /\ variant \in Variants
    /\ IdleCtor
    /\ outname = <<>>
    /\ argv \in {<<Prog>> \o a : a \in SeqsUpTo(ArgWords, MaxArgs)}
    /\ pc = "main" /\ mode = "none" /\ idx = 1 /\ filename = <<>>
    /\ parser = NoParser /\ exc = "None" /\ files = <<>> /\ stdout = <<>>
    /\ exitcode = -1 /\ opened = <<>> /\ written = <<>> /\ failures = {}

\* main(): help(1) without arguments
MainNoArgs ==
    /\ pc = "main" /\ Len(argv) < 2
    /\ stdout' = Append(stdout, Doc)
    /\ Exit(1, "None")
    /\ mode' = "usage"
    /\ UNCHANGED <<variant, ctorVars, outname, argv, idx, filename, parser,
                   files, opened, written, failures>>

\* main(): -v / --version
MainVersion ==
    /\ pc = "main" /\ Len(argv) >= 2 /\ argv[2] \in OptV
    /\ stdout' = Append(stdout, VERSION(variant))
    /\ Exit(0, "None")
    /\ mode' = "version"
    /\ UNCHANGED <<variant, ctorVars, outname, argv, idx, filename, parser,
                   files, opened, written, failures>>

\* main(): -h / --help
MainHelp ==
    /\ pc = "main" /\ Len(argv) >= 2 /\ argv[2] \in OptH
    /\ stdout' = Append(stdout, Doc)
    /\ Exit(0, "None")
    /\ mode' = "help"
    /\ UNCHANGED <<variant, ctorVars, outname, argv, idx, filename, parser,
                   files, opened, written, failures>>

\* main(): '-' in sys.argv -> dump2stdout, whose first line is argv.remove('-')
MainStream ==
    /\ pc = "main" /\ Len(argv) >= 2 /\ argv[2] \notin OptV \cup OptH
    /\ InArgv(Dash)
    /\ argv' = ListRemove(argv, Dash)
    /\ pc' = "dump2stdout"
    /\ mode' = "stream"
    /\ UNCHANGED <<variant, ctorVars, outname, idx, filename, parser, exc, files,
                   stdout, exitcode, opened, written, failures>>

\* main(): otherwise dump2txt
MainFiles ==
    /\ pc = "main" /\ Len(argv) >= 2 /\ argv[2] \notin OptV \cup OptH
    /\ ~InArgv(Dash)
    /\ pc' = "dump2txt"
    /\ mode' = "files"
    /\ UNCHANGED <<variant, ctorVars, outname, argv, idx, filename, parser, exc,
                   files, stdout, exitcode, opened, written, failures>>

\* dump2stdout: one pass of the for loop; an exception leaves the process
Dump2stdoutStep ==
    /\ pc = "dump2stdout" /\ idx <= Len(argv) - 1
    /\ filename' = argv[idx + 1]
    /\ opened' = Append(opened, argv[idx + 1])
    /\ \E r \in {MailParserNew(variant, FS, argv[idx + 1])} :
          IF r.exc # "None"
          THEN /\ failures' = failures \cup {argv[idx + 1]}
               /\ Exit(1, r.exc)
               /\ UNCHANGED <<stdout, idx>>
          ELSE /\ stdout' = Append(stdout, get_attr_data(r.parser))
               /\ idx' = idx + 1
               /\ UNCHANGED <<pc, exitcode, exc, failures>>
    /\ UNCHANGED <<variant, ctorVars, outname, argv, mode, parser, files, written>>

Dump2stdoutEnd ==
    /\ pc = "dump2stdout" /\ idx > Len(argv) - 1
    /\ Exit(0, "None")
    /\ UNCHANGED <<variant, ctorVars, outname, argv, mode, idx, filename, parser,
                   files, stdout, opened, written, failures>>

\* an exception inside the loop of dump2txt: caught by the except clause
\* around the loop in eml2txt.py, uncaught in __main__.py
Dump2txtRaise(e) ==
    IF variant = "eml2txt"
    THEN /\ pc' = "handler"
         /\ exc' = e
         /\ UNCHANGED exitcode
    ELSE Exit(1, e)

\* dump2txt: one pass of the for loop.  The open for writing succeeds or
\* raises OSError, as the file system decides.
Dump2txtStep ==
    /\ pc = "dump2txt" /\ idx <= Len(argv) - 1
    /\ filename' = argv[idx + 1]
    /\ opened' = Append(opened, argv[idx + 1])
    /\ \E r \in {MailParserNew(variant, FS, argv[idx + 1])} :
       LET name == OutName(variant, r.parser.subject, r.parser.date)
           result == get_attr_data(r.parser)
       IN IF r.exc # "None"
          THEN /\ failures' = failures \cup {argv[idx + 1]}
               /\ Dump2txtRaise(r.exc)
               /\ UNCHANGED <<parser, files, written, idx>>
          ELSE /\ parser' = r.parser
               /\ \E writable \in BOOLEAN :
                    IF writable
                    THEN /\ files' = WriteFile(files, name, OpenMode(variant), result)
                         /\ written' = Append(written,
                               [name |-> name, src |-> argv[idx + 1], text |-> result])
                         /\ idx' = idx + 1
                         /\ UNCHANGED <<pc, exitcode, exc, failures>>
                    ELSE /\ failures' = failures \cup {argv[idx + 1]}
                         /\ Dump2txtRaise("OSError")
                         /\ UNCHANGED <<files, written, idx>>
    /\ UNCHANGED <<variant, ctorVars, outname, argv, mode, stdout>>

Dump2txtEnd ==
    /\ pc = "dump2txt" /\ idx > Len(argv) - 1
    /\ Exit(0, "None")
    /\ UNCHANGED <<variant, ctorVars, outname, argv, mode, idx, filename, parser,
                   files, stdout, opened, written, failures>>

\* the except clause of dump2txt (eml2txt.py): what is written before the
\* read of an unbound `parser` stays in the file
Handler ==
    /\ pc = "handler"
    /\ stdout' = Append(stdout, ExcText(exc))
    /\ LET head == ExcText(exc) \o Str(<<"\n">>) \o filename
       IN IF ~parser.bound
          THEN /\ files' = WriteFile(files, ErrorLog, "a", head)
               /\ Exit(1, "UnboundLocalError")
          ELSE /\ files' = WriteFile(files, ErrorLog, "a",
                               head \o parser.subject \o parser.date
                                 \o get_attr_data(parser))
               /\ Exit(0, "None")
    /\ UNCHANGED <<variant, ctorVars, outname, argv, mode, idx, filename, parser,
                   opened, written, failures>>

Next ==
    \/ MainNoArgs
    \/ MainVersion
    \/ MainHelp
    \/ MainStream
    \/ MainFiles
    \/ Dump2stdoutStep
    \/ Dump2stdoutEnd
    \/ Dump2txtStep
    \/ Dump2txtEnd
    \/ Handler

Spec == Init /\ [][Next]_vars

\* ================================================================ claims

\* ---- helpers of the claims
RECURSIVE NodeAt(_, _)
NodeAt(root, path) ==
    IF path = <<>> THEN root ELSE NodeAt(root.children[Head(path)], Tail(path))

RECURSIVE ValidPath(_, _)
ValidPath(root, path) ==
    \/ path = <<>>
    \/ /\ root.is_multipart
       /\ Head(path) \in 1..Len(root.children)
       /\ ValidPath(root.children[Head(path)], Tail(path))

RECURSIVE TreeSize(_)
TreeSize(root) ==
    IF ~root.is_multipart \/ root.children = <<>> THEN 1
    ELSE 1 + TreeSize(Head(root.children))
           + (TreeSize([root EXCEPT !.children = Tail(@)]) - 1)

\* p comes before q in document order: p is a proper prefix of q, or at the
\* first position where they differ p takes the earlier child
RECURSIVE DocBefore(_, _)
DocBefore(p, q) ==
    IF p = <<>> THEN q # <<>>
    ELSE IF q = <<>> THEN FALSE
    ELSE IF Head(p) # Head(q) THEN Head(p) < Head(q)
    ELSE DocBefore(Tail(p), Tail(q))

Declared(charset) == charset \notin {"None", ""}

\* what a part adds to body / to attach_file_list, as C1 states it
BodyShare(p) ==
    IF p.maintype # "multipart" /\ p.filename = <<>> /\ Declared(p.charset)
    THEN IF CodecLookup(p.charset) = "utf-8" THEN Utf8Decode(p.payload)
         ELSE Latin1Decode(p.payload)
    ELSE <<>>
AttachShare(p) ==
    IF p.maintype # "multipart" /\ p.filename # <<>>
    THEN <<[name |-> p.filename,
            data |-> [isNone |-> p.is_multipart,
                      bytes |-> IF p.is_multipart THEN <<>> ELSE p.payload]]>>
    ELSE <<>>

Piece(frag) ==
    IF ~frag.isbytes THEN frag.data
    ELSE IF ~Declared(frag.charset) \/ CodecLookup(frag.charset) = "utf-8"
    THEN Utf8Decode(frag.data)
    ELSE Latin1Decode(frag.data)

Pieces(key, n) ==
    LET frags == decode_header(msg.headers[key].toks)
    IN Flatten([j \in 1..n |-> Piece(frags[j])])

Returned(key) ==
    IF ~msg.headers[key].present THEN <<>>
    ELSE Pieces(key, Len(decode_header(msg.headers[key].toks)))

RawText(key) ==
    Flatten([i \in 1..Len(msg.headers[key].toks) |-> msg.headers[key].toks[i].data])

After(key) ==
    CASE key = "Subject" -> {"To", "Cc", "From", "Date", "parse_date", "walk", "done"}
      [] key = "To" -> {"Cc", "From", "Date", "parse_date", "walk", "done"}
      [] key = "Cc" -> {"From", "Date", "parse_date", "walk", "done"}
      [] key = "From" -> {"Date", "parse_date", "walk", "done"}

\* C5: _get_decoded_header returns "" for an absent header; otherwise, after
\* every pass of its loop, ret is the concatenation, in fragment order and
\* with nothing in between, of the fragments seen so far: a str fragment
\* verbatim, a bytes fragment decoded with its label, or with UTF-8 when the
\* label is None or empty; a value without encoded words comes back unchanged.
C5_HeaderIsConcatenation ==
    /\ InHeader /\ msg.headers[cpc].present => ret = Pieces(cpc, fi - 1)
    /\ cpc = "parse_date" => ret = Returned("Date")
    /\ \A key \in {"Subject", "To", "Cc", "From"} :
         cpc \in After(key) =>
           /\ self[KeyField[key]] = Returned(key)
           /\ msg.headers[key].present /\ ~HasEncodedWord(msg.headers[key].toks)
                => self[KeyField[key]] = RawText(key)

\* Subject was decoded from two fragments, one of them bytes without a label
\* that are not valid UTF-8
C5_Witness ==
    /\ cpc = "To"
    /\ msg.headers["Subject"].present
    /\ LET frags == decode_header(msg.headers["Subject"].toks)
       IN /\ Len(frags) = 2
          /\ \E j \in 1..2 : frags[j].charset = "" /\ frags[j].data = <<233>>
          /\ \E j \in 1..2 : frags[j].charset = "iso-8859-1"
    /\ Len(self.subject) = 2

\* C3: a MailParser for a message whose Date header is absent or unparseable
\* is constructed without raising, and its date is the empty string.
C3_DateEmptyWhenUnusable ==
    (/\ cpc \in {"done", "raised"}
     /\ \/ ~msg.headers["Date"].present
        \/ ParseDateHeader(variant, msg).exc = "ParserError")
      => cpc = "done" /\ self.date = <<>>

HasMarker(text) == \E i \in 1..Len(text) : text[i] = 65533

\* C4: undecodable character-set data never aborts the decode: neither
\* bytes invalid in the declared charset nor an unknown charset label make
\* _get_decoded_header or _parse raise, and the text produced carries a
\* substitution marker in place of the undecodable data.
C4_UndecodableNeverAborts ==
    /\ raised # "LookupError"
    /\ cpc = "done" =>
         /\ (\E i \in 1..Len(msg.headers["Subject"].toks) :
                LET tk == msg.headers["Subject"].toks[i]
                IN tk.kind = "ew" /\ tk.data = <<233>> /\ tk.charset # "iso-8859-1")
              => HasMarker(self.subject)
         /\ (\E i \in 1..Len(visited) :
                LET p == NodeAt(msg.root, visited[i])
                IN p.maintype = "text" /\ p.filename = <<>> /\ Declared(p.charset)
                     /\ p.payload = <<233>> /\ p.charset # "iso-8859-1")
              => HasMarker(self.body)

\* ---- output file name
Forbidden == {92, 47, 58, 42, 63, 34, 60, 62, 124}  \* \ / : * ? " < > |
Kept(text) == SelectSeq(text, LAMBDA c : c \notin Forbidden)
Stem(name) == SubSeq(name, 1, Len(name) - 4)

\* C9: the output file name, apart from its ".txt" suffix, holds none of
\* \ / : * ? " < > | , and its subject part is the subject with exactly those
\* characters removed and every other character kept in order
\* ('My/Report:2024' becomes 'MyReport2024').
C9_NameSanitized ==
    cpc = "named" =>
      /\ Len(outname) >= 4
      /\ SubSeq(outname, Len(outname) - 3, Len(outname)) = <<46, 116, 120, 116>>
      /\ \A i \in 1..Len(Stem(outname)) : Stem(outname)[i] \notin Forbidden
      /\ LET k == Len(Stem(outname)) - Len(Kept(self.subject))
         IN /\ k >= 0
            /\ SubSeq(Stem(outname), k + 1, Len(Stem(outname))) = Kept(self.subject)
            /\ IF variant = "main" THEN k = 0
               ELSE k >= 1 /\ Stem(outname)[k] = 95
      /\ self.subject = <<77, 121, 47, 82, 101, 112, 111, 114, 116, 58, 50, 48, 50, 52>>
           => SubSeq(Stem(outname), Len(Stem(outname)) - 11, Len(Stem(outname)))
                = <<77, 121, 82, 101, 112, 111, 114, 116, 50, 48, 50, 52>>

\* a name was built, with a date prefix, from a subject holding a double
\* quote, a backslash and a character that stays
C9_Witness ==
    /\ cpc = "named" /\ variant = "eml2txt"
    /\ \E i, j, k \in 1..Len(self.subject) :
         self.subject[i] = 34 /\ self.subject[j] = 92 /\ self.subject[k] = 97
    /\ Len(outname) > 6

\* ---- the batch
Inputs == Tail(argv)
Readable(path) == MailParserNew(variant, FS, path).exc = "None"
Report(path) == get_attr_data(MailParserNew(variant, FS, path).parser)

\* C2: in a batch f1..fn (dump2txt and dump2stdout) a failure reading or
\* decoding fk does not prevent processing the remaining files: every later
\* fj whose own processing would succeed is still opened.
C2_LaterFilesProcessed ==
    (pc = "exit" /\ mode \in {"files", "stream"}) =>
      \A k, j \in 1..Len(Inputs) :
        (k < j /\ Inputs[k] \notin {Dash} \cup OptV \cup OptH
           /\ ~Readable(Inputs[k]) /\ Readable(Inputs[j]))
          => Len(opened) >= j /\ opened[j] = Inputs[j]

\* C6: stream mode is triggered by a '-' at any position, any number of
\* times: every other argument is an input file, one report per input is
\* printed in argument order, no '-' is treated as an input file path and
\* no file is created.
C6_StreamMode ==
    mode = "stream" =>
      /\ \A m \in 1..Len(opened) : opened[m] # Dash
      /\ files = <<>>
      /\ LET ins == SelectSeq(Inputs, LAMBDA a : a # Dash)
         IN (pc = "exit" /\ \A m \in 1..Len(ins) : Readable(ins[m]))
              => stdout = [m \in 1..Len(ins) |-> Report(ins[m])]

WritesTo(name) == SelectSeq(written, LAMBDA w : w.name = name)

\* C7 as claimed: in file mode of eml2txt.py, when two inputs map to the same
\* output file name the later report is appended after the earlier one: the
\* file holds both reports in processing order.
C7_Appended ==
    variant = "eml2txt" =>
      \A name \in DOMAIN files \ {ErrorLog} :
        files[name] = Flatten([m \in 1..Len(WritesTo(name)) |-> WritesTo(name)[m].text])

\* C7 as amended: in file mode of eml2txt.py the output file is opened with
\* 'w': it holds exactly the report of the last input written under its
\* name, whatever was written under that name before.
C7_Overwritten ==
    variant = "eml2txt" =>
      \A name \in DOMAIN files \ {ErrorLog} :
        /\ WritesTo(name) # <<>>
        /\ files[name] = WritesTo(name)[Len(WritesTo(name))].text

\* two inputs with different reports were written under one name
C7_Witness ==
    /\ variant = "eml2txt" /\ pc = "exit" /\ mode = "files"
    /\ \E a, b \in 1..Len(written) :
         /\ a < b
         /\ written[a].name = written[b].name
         /\ written[a].text # written[b].text
         /\ files[written[a].name] = written[b].text

\* C8: in file mode of eml2txt.py the exit status is zero if and only if
\* every input file was read, decoded and written without error.
C8_ExitStatusReflectsFailure ==
    (pc = "exit" /\ variant = "eml2txt" /\ mode = "files")
      => (exitcode = 0 <=> failures = {})

\* C10: in dump2txt of eml2txt.py, when processing fk fails the error handler
\* completes without raising, and its entry in eml2ext_error.txt names fk and
\* carries the subject, date and report of fk, never those of an earlier file.
C10_HandlerEntryIsOfFailedFile ==
    (pc = "exit" /\ variant = "eml2txt" /\ mode = "files" /\ failures # {})
      => /\ exc # "UnboundLocalError"
         /\ parser.bound
         /\ parser.mail_file_path = filename
====
